---- MODULE Spec2Model ----
(***************************************************************************)
(* Assignment-and-annotation engine of single_image_website (multi-user    *)
(* mode): the tables of models.py and the request handlers of app.py that  *)
(* read and write them.                                                    *)
(*                                                                         *)
(* Spec     : every request handler runs as one transaction, one at a time *)
(* SpecConc : handlers of concurrent requests interleave at their queries  *)
(*            and at their commit                                          *)
(***************************************************************************)
EXTENDS Integers, Sequences, FiniteSets, TLC

\* ---------------------------------------------------------------- bounds
NumImages == 2
NumProcs == 2
MaxRequests == 4

\* ---------------------------------------------------------------- tables
VARIABLES
    images,             \* ids of the rows of table images
    annotation_count,   \* images.annotation_count, by image id
    assignments,        \* rows of table assignments, in insertion order; id = position
    annotations,        \* rows of table annotations; the k-th row written for assignment a has id <<a, k>>
    resp,               \* the latest response; req is the body of a submit that was stored
    procs,              \* SpecConc: the handler each worker is running, with its locals
    started             \* SpecConc: number of requests the workers have taken to their queries

db == <<images, annotation_count, assignments, annotations>>
workers == <<procs, started>>
vars == <<images, annotation_count, assignments, annotations, resp, procs, started>>

\* the ids load_images_from_json can give; it numbers the images it loads from 1
Images == 1..NumImages
Procs == 1..NumProcs

\* table users: two annotators and an admin (create_admin.py); no handler modelled
\* here adds or removes a user
Users == {"alice", "bob", "root"}
role == [u \in Users |-> IF u = "root" THEN "admin" ELSE "annotator"]
is_admin(u) == role[u] = "admin"

\* A nullable column: NULL, or one value.
NULL == {}
Some(v) == {v}

\* ---------------------------------------------------------------- text
\* A string is the sequence of its characters. The question and answer a request
\* may carry: blank, and a text with blanks around it.
Texts == {<<" ">>, <<" ", "q", " ">>}

\* str.strip(): leading and trailing whitespace removed
RECURSIVE lstrip(_)
lstrip(s) == IF s # <<>> /\ Head(s) = " " THEN lstrip(Tail(s)) ELSE s

RECURSIVE rstrip(_)
rstrip(s) == IF s # <<>> /\ s[Len(s)] = " " THEN rstrip(SubSeq(s, 1, Len(s) - 1)) ELSE s

strip(s) == rstrip(lstrip(s))

\* `x if x else None`
OrNone(s) == IF s # <<>> THEN Some(s) ELSE NULL

\* ---------------------------------------------------------------- queries
Min(a, b) == IF a < b THEN a ELSE b

AssignmentIds == 1..Len(assignments)

\* db.session.query(Assignment.image_id)
AssignedImages == {assignments[i].image_id : i \in AssignmentIds}

\* variant: the images no pending assignment holds
ImagesWithoutPending ==
    images \ {assignments[i].image_id : i \in {j \in AssignmentIds : assignments[j].status = "pending"}}

\* Image.query.filter(~Image.id.in_(db.session.query(Assignment.image_id)))
UnassignedImages == images \ AssignedImages

\* variant: the lookup does not filter by user
AnyAssignment(id, u) == id \in AssignmentIds

\* Assignment.query.filter_by(id=..., user_id=current_user.id).first()
OwnAssignment(id, u) == id \in AssignmentIds /\ assignments[id].user_id = u

\* Annotation.query.filter_by(assignment_id=assignment.id): the matching rows
AnnotationsOf(asgId) == {r \in annotations : r.assignment_id = asgId}

\* variant: the lookup finds no row
NoAnnotationFound(asgId) == {NULL}

\* .first() of that query: one matching row as loaded, or None
FirstAnnotation(asgId) ==
    IF AnnotationsOf(asgId) = {} THEN {NULL} ELSE {Some(r) : r \in AnnotationsOf(asgId)}

\* Assignment.query.filter_by(user_id=..., status='pending')
PendingOf(u) ==
    {i \in AssignmentIds : assignments[i].user_id = u /\ assignments[i].status = "pending"}

\* ---------------------------------------------------------------- requests
\* request.get_json() of /api/annotate with both required keys; an absent
\* question or answer reads as '' (data.get('question', ''))
WellFormedBodies ==
    [image_id : Images,
     assignment_id : 1..(Len(assignments) + 1),
     question : Texts, answer : Texts, is_rejected : BOOLEAN]

\* request.get_json() of /api/report with both required keys
WellFormedReports == [image_id : Images, assignment_id : 1..(Len(assignments) + 1)]

\* bodies that lack a required key, and the empty body
MalformedBodies == {[x \in {} |-> 0], [image_id |-> 1], [assignment_id |-> 1]}

Bodies == WellFormedBodies \cup MalformedBodies
ReportBodies == WellFormedReports \cup MalformedBodies

\* if not data or 'image_id' not in data or 'assignment_id' not in data
MissingFields(data) ==
    DOMAIN data = {} \/ "image_id" \notin DOMAIN data \/ "assignment_id" \notin DOMAIN data

\* request.form of /admin/assignments/create
Counts == (-1)..(NumImages + 1)
Forms == [user_id : Users \cup {"ghost"}, count : Counts]

\* the response of a handler: its status code, and out, the number it reports
\* (rows created, or the assignment_id of the next work item)
Respond(op, code, req, out) ==
    resp' = [op |-> op, code |-> code, req |-> req, out |-> out, error |-> ""]

\* an error response: jsonify({'error': ...}), or flash(...) and redirect
Fail(op, code, error) ==
    resp' = [op |-> op, code |-> code, req |-> NULL, out |-> 0, error |-> error]

\* a worker between requests
Idle == [pc |-> "idle"]

\* ---------------------------------------------------------------- writes
\* variant: every payload is accepted
PayloadAlwaysOk(data) == TRUE

\* if question and answer: ... elif is_rejected: ... else: 400
PayloadOk(data) ==
    \/ strip(data.question) # <<>> /\ strip(data.answer) # <<>>
    \/ data.is_rejected

\* variant: one text is enough for an approval
SaveColsEitherApproves(data) ==
    [question |-> OrNone(strip(data.question)),
     answer |-> OrNone(strip(data.answer)),
     is_approved |-> (strip(data.question) # <<>> \/ strip(data.answer) # <<>>),
     is_reported |-> FALSE]

\* variant: the texts are stored as sent
SaveColsUntrimmed(data) ==
    [question |-> OrNone(data.question),
     answer |-> OrNone(data.answer),
     is_approved |-> (strip(data.question) # <<>> /\ strip(data.answer) # <<>>),
     is_reported |-> FALSE]

\* the columns save_annotation sets
SaveCols(data) ==
    [question |-> OrNone(strip(data.question)),
     answer |-> OrNone(strip(data.answer)),
     is_approved |-> (strip(data.question) # <<>> /\ strip(data.answer) # <<>>),
     is_reported |-> FALSE]

\* the columns report_image sets
ReportCols == [is_approved |-> FALSE, is_reported |-> TRUE]

\* variant: the pass is taken after the increment
PassAfterIncrement(count) == (count + 1) + 1

\* annotation_pass=image.annotation_count + 1
PassNumber(count) == count + 1

\* image.annotation_count += 1
Incremented(count) == count + 1

\* Annotation(...): columns not given are NULL
NewAnnotation(asgId, user, cols, count) ==
    [id |-> <<asgId, Cardinality(AnnotationsOf(asgId)) + 1>>,
     image_id |-> assignments[asgId].image_id,
     user_id |-> user,
     assignment_id |-> asgId,
     question |-> IF "question" \in DOMAIN cols THEN cols.question ELSE NULL,
     answer |-> IF "answer" \in DOMAIN cols THEN cols.answer ELSE NULL,
     is_approved |-> cols.is_approved,
     is_reported |-> cols.is_reported,
     annotation_pass |-> PassNumber(count)]

\* The UPDATE the session flushes for a loaded row: the columns whose new value
\* differs from the value that was loaded (snap); the others keep the stored value.
UpdatedAnnotation(row, snap, cols) ==
    [f \in DOMAIN row |->
        IF f \in DOMAIN cols /\ cols[f] # snap[f] THEN cols[f] ELSE row[f]]

\* variant: the status is left as it is
NotCompleted(asg) == asg

\* variant: a second write reopens the assignment
Toggled(asg) ==
    [asg EXCEPT !.status = IF @ = "pending" THEN "completed" ELSE "pending"]

\* assignment.status = 'completed'
Completed(asg) == [asg EXCEPT !.status = "completed"]

\* the stored row with the id of a loaded row
Stored(snap) == CHOOSE r \in annotations : r.id = snap.id

\* The flush and commit of save_annotation and report_image: existing is what
\* the lookup returned (the row as loaded, or None), count the annotation_count
\* as loaded.
CommitAnnotation(asgId, user, cols, existing, count) ==
    /\ IF existing # NULL
          THEN /\ \E snap \in existing :
                    annotations' = (annotations \ {Stored(snap)})
                                      \cup {UpdatedAnnotation(Stored(snap), snap, cols)}
               /\ UNCHANGED annotation_count
          ELSE /\ annotations' = annotations \cup {NewAnnotation(asgId, user, cols, count)}
               /\ annotation_count' =
                    [annotation_count EXCEPT ![assignments[asgId].image_id] = Incremented(count)]
    /\ assignments' = [assignments EXCEPT ![asgId] = Completed(@)]
    /\ UNCHANGED images

\* variant: the table has no unique constraint
no_constraint(rows) == TRUE

\* UniqueConstraint('user_id', 'image_id')
unique_user_image_assignment(rows) ==
    \A i, j \in 1..Len(rows) :
        (rows[i].user_id = rows[j].user_id /\ rows[i].image_id = rows[j].image_id) => i = j

\* Assignment(user_id=user_id, image_id=image.id), status defaults to 'pending'
NewAssignment(user, image) == [user_id |-> user, image_id |-> image, status |-> "pending"]

\* variant: the query has no limit
SelectionsUnlimited(pool, count) ==
    {s \in [1..Cardinality(pool) -> pool] : \A i, j \in 1..Cardinality(pool) : s[i] = s[j] => i = j}

\* .limit(count).all(): count of the matching rows, in an order the query does not
\* fix; a negative LIMIT is no limit.
Selections(pool, count) ==
    LET n == IF count < 0 THEN Cardinality(pool) ELSE Min(count, Cardinality(pool))
    IN {s \in [1..n -> pool] : \A i, j \in 1..n : s[i] = s[j] => i = j}

\* The inserts and the commit of admin_create_assignments; a violated unique
\* constraint is an IntegrityError and nothing is written.
CommitAssignments(form, selected) ==
    LET rows == [i \in 1..Len(selected) |-> NewAssignment(form.user_id, selected[i])]
    IN IF unique_user_image_assignment(assignments \o rows)
          THEN /\ assignments' = assignments \o rows
               /\ Respond("bulkAssign", 200, NULL, Len(selected))
          ELSE /\ UNCHANGED assignments
               /\ Fail("bulkAssign", 500, "Internal Server Error")

\* ---------------------------------------------------------------- handlers
\* GET /api/next_image: .first() of the caller's pending assignments, which the
\* query does not order; out is the assignment_id, 0 for all_complete.
get_next_image(u) ==
    /\ \E a \in (IF PendingOf(u) = {} THEN {0} ELSE PendingOf(u)) :
          Respond("nextWorkItem", 200, NULL, a)
    /\ UNCHANGED <<db, workers>>

\* POST /api/annotate
save_annotation(u, data) ==
    /\ data \in Bodies
    /\ UNCHANGED workers
    /\ IF MissingFields(data)
          THEN Fail("submit", 400, "Missing required fields") /\ UNCHANGED db
       ELSE IF ~OwnAssignment(data.assignment_id, u)
          THEN Fail("submit", 404, "Assignment not found") /\ UNCHANGED db
       ELSE IF ~PayloadOk(data)
          THEN Fail("submit", 400, "Either provide Q&A or mark as rejected") /\ UNCHANGED db
       ELSE \E existing \in FirstAnnotation(data.assignment_id) :
               /\ CommitAnnotation(data.assignment_id, u, SaveCols(data), existing,
                     annotation_count[assignments[data.assignment_id].image_id])
               /\ Respond("submit", 200, Some(data), 0)

\* POST /api/report
report_image(u, data) ==
    /\ data \in ReportBodies
    /\ UNCHANGED workers
    /\ IF MissingFields(data)
          THEN Fail("report", 400, "Missing required fields") /\ UNCHANGED db
       ELSE IF ~OwnAssignment(data.assignment_id, u)
          THEN Fail("report", 404, "Assignment not found") /\ UNCHANGED db
       ELSE \E existing \in FirstAnnotation(data.assignment_id) :
               /\ CommitAnnotation(data.assignment_id, u, ReportCols, existing,
                     annotation_count[assignments[data.assignment_id].image_id])
               /\ Respond("report", 200, NULL, 0)

\* variant: the decorator lets every caller through
AnyoneAllowed(caller) == TRUE

\* @admin_required
admin_required(caller) == is_admin(caller)

\* POST /admin/assignments/create. A negative LIMIT is an error on PostgreSQL
\* and no limit on SQLite.
admin_create_assignments(caller, form) ==
    /\ form \in Forms
    /\ UNCHANGED <<images, annotation_count, annotations, workers>>
    /\ IF ~admin_required(caller)
          THEN Fail("bulkAssign", 302, "Admin access required") /\ UNCHANGED assignments
       ELSE IF form.user_id \notin Users
          THEN Fail("bulkAssign", 302, "User not found") /\ UNCHANGED assignments
       ELSE \/ \E selected \in Selections(UnassignedImages, form.count) :
                  CommitAssignments(form, selected)
            \/ /\ form.count < 0
               /\ Fail("bulkAssign", 500, "Internal Server Error")
               /\ UNCHANGED assignments

\* ---------------------------------------------------------------- read-only handlers
\* These handlers write nothing; each is the response it computes from the tables.

\* round(n / d * 100, 1) if d > 0 else 0, in tenths of a percent. The nearest
\* tenth; a tie between two tenths needs d to be a multiple of 2000.
Progress(n, d) == IF d > 0 THEN (2000 * n + d) \div (2 * d) ELSE 0

\* GET /api/stats
get_stats(u) ==
    IF is_admin(u)
       THEN LET total_images == Cardinality(images)
                total_annotations == Cardinality({r \in annotations : r.is_approved})
                total_rejected ==
                    Cardinality({r \in annotations : ~r.is_approved /\ ~r.is_reported})
                total_reported == Cardinality({r \in annotations : r.is_reported})
            IN [total_images |-> total_images,
                approved_images |-> total_annotations,
                rejected_images |-> total_rejected,
                reported_images |-> total_reported,
                progress_percentage |->
                    Progress(total_annotations + total_rejected + total_reported, total_images)]
       ELSE LET total_assigned ==
                    Cardinality({i \in AssignmentIds : assignments[i].user_id = u})
                completed ==
                    Cardinality({i \in AssignmentIds :
                        assignments[i].user_id = u /\ assignments[i].status = "completed"})
            IN [total_images |-> total_assigned,
                approved_images |-> completed,
                rejected_images |-> 0,
                reported_images |-> 0,
                progress_percentage |-> Progress(completed, total_assigned)]

\* result['annotation'] of get_specific_image
AnnotationView(r) ==
    [is_approved |-> r.is_approved, is_reported |-> r.is_reported,
     question |-> r.question, answer |-> r.answer]

\* GET /api/image/<image_id>: the responses the two .first() lookups allow
get_specific_image(u, image_id) ==
    LET found == {i \in AssignmentIds :
                    assignments[i].user_id = u /\ assignments[i].image_id = image_id}
    IN IF found = {}
          THEN {[code |-> 403, assignment_id |-> 0, annotation |-> NULL]}
          ELSE UNION {{[code |-> 200, assignment_id |-> i,
                        annotation |-> {AnnotationView(r) : r \in existing}]
                          : existing \in FirstAnnotation(i)} : i \in found}

\* request.args of /admin/download
StatusFilters == {"approved", "rejected", "reported", "all"}
UserFilters == Users \cup {"all"}

\* GET /admin/download: the exported rows
admin_download_annotations(status_filter, user_filter) ==
    LET matches(r) ==
            /\ status_filter = "approved" => r.is_approved
            /\ status_filter = "rejected" => (~r.is_approved /\ ~r.is_reported)
            /\ status_filter = "reported" => r.is_reported
            /\ user_filter # "all" => r.user_id = user_filter
    IN {[image_id |-> r.image_id, question |-> r.question, answer |-> r.answer,
         is_approved |-> r.is_approved, is_reported |-> r.is_reported,
         username |-> r.user_id, annotation_pass |-> r.annotation_pass]
            : r \in {x \in annotations : matches(x)}}

\* User.query.filter_by(role='annotator').all(): the annotators, in an order the
\* query does not fix
Annotators == {u \in Users : role[u] = "annotator"}
AnnotatorLists ==
    {l \in [1..Cardinality(Annotators) -> Annotators] :
        \A i, j \in 1..Cardinality(Annotators) : l[i] = l[j] => i = j}

\* Annotation.query.filter_by(user_id=user.id, is_approved=True).count()
ApprovedCount(u) == Cardinality({r \in annotations : r.user_id = u /\ r.is_approved})

\* variant: an entry goes before the entries of equal count
InsertBeforeEqual(sorted, e) ==
    LET n == Cardinality({i \in 1..Len(sorted) : sorted[i].approved_count > e.approved_count})
    IN SubSeq(sorted, 1, n) \o <<e>> \o SubSeq(sorted, n + 1, Len(sorted))

\* one step of the stable descending sort: e goes behind the entries of greater
\* or equal count
InsertEntry(sorted, e) ==
    LET n == Cardinality({i \in 1..Len(sorted) : sorted[i].approved_count >= e.approved_count})
    IN SubSeq(sorted, 1, n) \o <<e>> \o SubSeq(sorted, n + 1, Len(sorted))

\* leaderboard.sort(key=lambda x: x['approved_count'], reverse=True)
RECURSIVE SortReverse(_)
SortReverse(list) ==
    IF list = <<>> THEN <<>>
    ELSE InsertEntry(SortReverse(SubSeq(list, 1, Len(list) - 1)), list[Len(list)])

\* GET /api/leaderboard, users being the list the query returned; position i of
\* the sequence is index i - 1 of the Python list
get_leaderboard(users) ==
    LET leaderboard == [i \in 1..Len(users) |->
                          [username |-> users[i], approved_count |-> ApprovedCount(users[i])]]
        sorted == SortReverse(leaderboard)
    IN [i \in 1..Len(sorted) |->
          [username |-> sorted[i].username,
           approved_count |-> sorted[i].approved_count,
           rank |-> (i - 1) + 1]]

\* ---------------------------------------------------------------- interleaved handlers
\* A handler running in worker p: its queries and its commit are separate steps,
\* each query reading the rows committed so far.

\* the requests of the interleaved runs
ConcUsers == {"alice", "bob"}
ConcBodies ==
    {d \in WellFormedBodies :
        /\ d.image_id = 1
        /\ \/ d.question = <<" ", "q", " ">> /\ d.answer = d.question /\ ~d.is_rejected
           \/ d.answer = <<" ">> /\ d.is_rejected}
ConcReports == {d \in WellFormedReports : d.image_id = 1}
ConcForms == {f \in Forms : f.user_id \in ConcUsers /\ f.count \in {1, NumImages}}

\* save_annotation up to its lookup of the existing annotation
begin_save(p, u, data) ==
    /\ procs[p] = Idle
    /\ UNCHANGED db
    /\ IF MissingFields(data)
          THEN Fail("submit", 400, "Missing required fields") /\ UNCHANGED workers
       ELSE IF ~OwnAssignment(data.assignment_id, u)
          THEN Fail("submit", 404, "Assignment not found") /\ UNCHANGED workers
       ELSE IF ~PayloadOk(data)
          THEN Fail("submit", 400, "Either provide Q&A or mark as rejected") /\ UNCHANGED workers
       ELSE /\ started < MaxRequests
            /\ started' = started + 1
            /\ procs' = [procs EXCEPT ![p] =
                    [pc |-> "lookup", op |-> "submit", user |-> u, data |-> data,
                     cols |-> SaveCols(data)]]
            /\ UNCHANGED resp

\* report_image up to its lookup of the existing annotation
begin_report(p, u, data) ==
    /\ procs[p] = Idle
    /\ UNCHANGED db
    /\ IF MissingFields(data)
          THEN Fail("report", 400, "Missing required fields") /\ UNCHANGED workers
       ELSE IF ~OwnAssignment(data.assignment_id, u)
          THEN Fail("report", 404, "Assignment not found") /\ UNCHANGED workers
       ELSE /\ started < MaxRequests
            /\ started' = started + 1
            /\ procs' = [procs EXCEPT ![p] =
                    [pc |-> "lookup", op |-> "report", user |-> u, data |-> data,
                     cols |-> ReportCols]]
            /\ UNCHANGED resp

\* existing = Annotation.query.filter_by(assignment_id=assignment.id).first()
lookup_existing(p) ==
    /\ procs[p].pc = "lookup"
    /\ UNCHANGED <<db, resp, started>>
    /\ \E existing \in FirstAnnotation(procs[p].data.assignment_id) :
          procs' = [procs EXCEPT ![p] =
              IF existing # NULL
                 THEN [pc |-> "commit", op |-> @.op, user |-> @.user, data |-> @.data,
                       cols |-> @.cols, existing |-> existing, count |-> 0]
                 ELSE [pc |-> "load", op |-> @.op, user |-> @.user, data |-> @.data,
                       cols |-> @.cols]]

\* image = assignment.image, in the branch that found no annotation
load_image(p) ==
    /\ procs[p].pc = "load"
    /\ UNCHANGED <<db, resp, started>>
    /\ procs' = [procs EXCEPT ![p] =
          [pc |-> "commit", op |-> @.op, user |-> @.user, data |-> @.data,
           cols |-> @.cols, existing |-> NULL,
           count |-> annotation_count[assignments[@.data.assignment_id].image_id]]]

\* db.session.commit() of save_annotation and report_image
commit_annotation(p) ==
    /\ procs[p].pc = "commit"
    /\ CommitAnnotation(procs[p].data.assignment_id, procs[p].user, procs[p].cols,
          procs[p].existing, procs[p].count)
    /\ Respond(procs[p].op, 200,
          IF procs[p].op = "submit" THEN Some(procs[p].data) ELSE NULL, 0)
    /\ procs' = [procs EXCEPT ![p] = Idle]
    /\ UNCHANGED started

\* admin_create_assignments up to its query of the unassigned images
begin_assign(p, caller, form) ==
    /\ procs[p] = Idle
    /\ UNCHANGED db
    /\ IF ~admin_required(caller)
          THEN Fail("bulkAssign", 302, "Admin access required") /\ UNCHANGED workers
       ELSE IF form.user_id \notin Users
          THEN Fail("bulkAssign", 302, "User not found") /\ UNCHANGED workers
       ELSE /\ started < MaxRequests
            /\ started' = started + 1
            /\ \E selected \in Selections(UnassignedImages, form.count) :
                  procs' = [procs EXCEPT ![p] =
                      [pc |-> "insert", form |-> form, selected |-> selected]]
            /\ UNCHANGED resp

\* the inserts and db.session.commit() of admin_create_assignments
commit_assign(p) ==
    /\ procs[p].pc = "insert"
    /\ CommitAssignments(procs[p].form, procs[p].selected)
    /\ procs' = [procs EXCEPT ![p] = Idle]
    /\ UNCHANGED <<images, annotation_count, annotations, started>>

\* the worker dies before its commit: the session is discarded, nothing is written
crash(p) ==
    /\ procs[p].pc # "idle"
    /\ procs' = [procs EXCEPT ![p] = Idle]
    /\ Fail("none", 500, "Internal Server Error")
    /\ UNCHANGED <<db, started>>

\* ---------------------------------------------------------------- Spec
\* db.create_all() and load_images_from_json(): the images of images.json (none
\* when the file is absent or lists none), no assignment, no annotation
Init ==
    /\ images \in {1..n : n \in 0..NumImages}
    /\ annotation_count = [i \in Images |-> 0]
    /\ assignments = <<>>
    /\ annotations = {}
    /\ resp = [op |-> "none", code |-> 0, req |-> NULL, out |-> 0, error |-> ""]
    /\ procs = [p \in Procs |-> Idle]
    /\ started = 0

NextWorkItem == \E u \in Users : get_next_image(u)
Submit == \E u \in Users : \E data \in Bodies : save_annotation(u, data)
Report == \E u \in Users : \E data \in ReportBodies : report_image(u, data)
BulkAssign == \E caller \in Users : \E form \in Forms : admin_create_assignments(caller, form)

Next == NextWorkItem \/ Submit \/ Report \/ BulkAssign

Spec == Init /\ [][Next]_vars

BeginSave == \E p \in Procs : \E u \in ConcUsers : \E data \in ConcBodies : begin_save(p, u, data)
BeginReport == \E p \in Procs : \E u \in ConcUsers : \E data \in ConcReports : begin_report(p, u, data)
LookupExisting == \E p \in Procs : lookup_existing(p)
LoadImage == \E p \in Procs : load_image(p)
CommitAnnotationStep == \E p \in Procs : commit_annotation(p)
BeginAssign == \E p \in Procs : \E caller \in {"root", "alice"} : \E form \in ConcForms : begin_assign(p, caller, form)
CommitAssign == \E p \in Procs : commit_assign(p)
Crash == \E p \in Procs : crash(p)

NextConc ==
    \/ BeginSave \/ BeginReport \/ LookupExisting \/ LoadImage \/ CommitAnnotationStep
    \/ BeginAssign \/ CommitAssign \/ Crash

SpecConc == Init /\ [][NextConc]_vars

\* ---------------------------------------------------------------- SpecWork
\* The work loop of the annotators: the admin assigns before any work starts,
\* then each user takes the item /api/next_image returns and answers it with a
\* submit or a report; no assignment is made once work has started.

\* the latest response handed out a work item
ItemTaken == resp.op = "nextWorkItem" /\ resp.out # 0

\* bulkAssign, before the first work item is asked for
AssignWork ==
    /\ resp.op \in {"none", "bulkAssign"}
    /\ BulkAssign

\* GET /api/next_image by a user
TakeItem(u) == get_next_image(u)

\* the user the item was handed to answers it with an accepted submit or a report
SubmitTaken ==
    /\ ItemTaken
    /\ \/ \E data \in WellFormedBodies :
             /\ data.assignment_id = resp.out
             /\ PayloadOk(data)
             /\ save_annotation(assignments[resp.out].user_id, data)
       \/ \E data \in WellFormedReports :
             /\ data.assignment_id = resp.out
             /\ report_image(assignments[resp.out].user_id, data)

\* a submit of user u for the item taken that the handler refuses: a field is
\* missing (400), the assignment named is not the user's (404), or the payload
\* is invalid (400)
Refused(data, u) ==
    IF MissingFields(data) THEN TRUE
    ELSE IF ~OwnAssignment(data.assignment_id, u) THEN TRUE
    ELSE ~PayloadOk(data)

\* the user the item was handed to sends a submit that is refused
InvalidSubmit ==
    /\ ItemTaken
    /\ \E data \in Bodies :
          /\ Refused(data, assignments[resp.out].user_id)
          /\ save_annotation(assignments[resp.out].user_id, data)

NextWork == AssignWork \/ (\E u \in Users : TakeItem(u)) \/ SubmitTaken \/ InvalidSubmit

\* Every user keeps asking for the next item, and an item that keeps being
\* handed out is answered with an accepted submit or a report.
SpecWork ==
    /\ Init /\ [][NextWork]_vars
    /\ \A u \in Users : WF_vars(TakeItem(u))
    /\ SF_vars(SubmitTaken)

\* ---------------------------------------------------------------- properties
UsersOn(img) == {assignments[i].user_id : i \in {j \in AssignmentIds : assignments[j].image_id = img}}
AnnotationsOn(img) == {r \in annotations : r.image_id = img}
TheRequest == CHOOSE d \in resp.req : TRUE

\* C1: under sequential request handling, after any calls of bulkAssign,
\* nextWorkItem, submit and report, no image has Assignment rows of more than
\* one user.
C1_OneUserPerImage == \A img \in Images : Cardinality(UsersOn(img)) <= 1

\* two users hold assignments, one of them completed, and every image is assigned
C1_Witness ==
    /\ \E i, j \in AssignmentIds : assignments[i].user_id # assignments[j].user_id
    /\ \E i \in AssignmentIds : assignments[i].status = "completed"
    /\ UnassignedImages = {}

\* C2: with bulkAssign requests interleaved, no state has the same image
\* assigned to two users.
C2_NoDoubleAssignment ==
    \A i, j \in AssignmentIds :
        assignments[i].image_id = assignments[j].image_id
            => assignments[i].user_id = assignments[j].user_id

\* C3: in every committed state, also with handlers interleaved and workers
\* dying before their commit, an assignment is completed exactly when an
\* Annotation row exists for it.
C3_CompletedIffAnnotated ==
    \A a \in AssignmentIds :
        assignments[a].status = "completed" <=> AnnotationsOf(a) # {}

\* one assignment is completed and annotated while a worker stands before its
\* commit for an assignment that is still pending
C3_Witness ==
    /\ \E a \in AssignmentIds : assignments[a].status = "completed" /\ AnnotationsOf(a) # {}
    /\ \E p \in Procs :
          /\ procs[p].pc = "commit"
          /\ assignments[procs[p].data.assignment_id].status = "pending"

\* C4: with submit and report requests on one assignment interleaved, the
\* assignment has at most one Annotation row and its image's annotation_count
\* is at most the number of assignments on the image.
C4_OneAnnotationPerAssignment ==
    \A a \in AssignmentIds :
        /\ Cardinality(AnnotationsOf(a)) <= 1
        /\ annotation_count[assignments[a].image_id]
              <= Cardinality({b \in AssignmentIds :
                                assignments[b].image_id = assignments[a].image_id})

\* C5: a submit that repeats the body of the submit stored just before it, on
\* the same assignment, changes no table: the assignment keeps its one
\* Annotation row and the image its annotation_count.
C5_SubmitIdempotent ==
    [][(/\ resp.op = "submit" /\ resp.code = 200 /\ resp.req # NULL
        /\ save_annotation(assignments[TheRequest.assignment_id].user_id, TheRequest))
       => (/\ UNCHANGED db
           /\ Cardinality(AnnotationsOf(TheRequest.assignment_id)) = 1
           /\ annotation_count[assignments[TheRequest.assignment_id].image_id] = 1)]_vars

\* a submit has just been stored and its assignment holds one annotation
C5_Witness ==
    /\ resp.op = "submit" /\ resp.code = 200 /\ resp.req # NULL
    /\ Cardinality(AnnotationsOf(TheRequest.assignment_id)) = 1
    /\ \E r \in AnnotationsOf(TheRequest.assignment_id) :
          r.is_approved /\ r.question = Some(<<"q">>)

\* C6: in every reachable state, also with requests interleaved, every image's
\* annotation_count is the number of Annotation rows of that image.
C6_CountIsRows ==
    \A img \in Images : annotation_count[img] = Cardinality(AnnotationsOn(img))

\* C7: a step never changes the annotation_pass of a row that exists, and a row
\* it creates gets the image's annotation_count before the step, plus one, while
\* the count goes up by one.
C7_PassNumberFixed ==
    [][\A new \in annotations' :
          IF \E old \in annotations : old.id = new.id
             THEN \A old \in annotations :
                     old.id = new.id => new.annotation_pass = old.annotation_pass
             ELSE /\ new.annotation_pass = annotation_count[new.image_id] + 1
                  /\ annotation_count'[new.image_id] = annotation_count[new.image_id] + 1]_vars

\* a report has overwritten an approved annotation, whose pass number is still 1
C7_Witness ==
    \E r \in annotations :
        /\ r.is_reported
        /\ r.question # NULL /\ r.answer # NULL
        /\ r.annotation_pass = 1

\* C8: no step deletes an assignment or changes its user or image, a new
\* assignment starts pending, and a completed assignment stays completed.
C8_StatusMonotone ==
    [][/\ Len(assignments') >= Len(assignments)
       /\ \A a \in AssignmentIds :
            /\ assignments'[a].user_id = assignments[a].user_id
            /\ assignments'[a].image_id = assignments[a].image_id
            /\ assignments'[a].status \in {"pending", "completed"}
            /\ assignments[a].status = "completed" => assignments'[a].status = "completed"
       /\ \A a \in (Len(assignments) + 1)..Len(assignments') :
            assignments'[a].status = "pending"]_vars

\* a completed assignment has been written again (a report over stored Q&A)
\* and another assignment was created after it
C8_Witness ==
    \E a, b \in AssignmentIds :
        /\ a < b
        /\ assignments[a].status = "completed"
        /\ \E r \in AnnotationsOf(a) : r.is_reported /\ r.question # NULL

\* C9: in every reachable state, also with bulkAssign requests interleaved, no
\* two Assignment rows have the same user and the same image.
C9_UniqueUserImage ==
    \A i, j \in AssignmentIds :
        i # j => <<assignments[i].user_id, assignments[i].image_id>>
                    # <<assignments[j].user_id, assignments[j].image_id>>

\* a bulkAssign lost to the unique constraint after another one had assigned
C9_Witness ==
    /\ resp.op = "bulkAssign" /\ resp.code = 500
    /\ assignments # <<>>

\* C10: a bulkAssign by an admin for an existing user with count >= 0 appends
\* min(count, unassigned images) pending rows of that user, on distinct images
\* that had no assignment, changes no other row, leaves the other images
\* unassigned, and reports the number of rows it created.
C10_BulkAssignCreates ==
    [][resp'.op = "bulkAssign" => \A caller \in Users : \A form \in Forms :
          (/\ form.count >= 0 /\ form.user_id \in Users /\ is_admin(caller)
           /\ admin_create_assignments(caller, form))
          => LET n == Min(form.count, Cardinality(UnassignedImages))
                 new == (Len(assignments) + 1)..Len(assignments')
             IN /\ Len(assignments') = Len(assignments) + n
                /\ SubSeq(assignments', 1, Len(assignments)) = assignments
                /\ \A a \in new :
                      /\ assignments'[a].user_id = form.user_id
                      /\ assignments'[a].status = "pending"
                      /\ assignments'[a].image_id \in UnassignedImages
                /\ \A a, b \in new :
                      assignments'[a].image_id = assignments'[b].image_id => a = b
                /\ UnassignedImages' = UnassignedImages \ {assignments'[a].image_id : a \in new}
                /\ resp'.code = 200 /\ resp'.out = n]_vars

\* a bulkAssign asked for fewer rows than there were unassigned images: it
\* created one row and left an image unassigned
C10_Witness ==
    /\ resp.op = "bulkAssign" /\ resp.code = 200 /\ resp.out = 1
    /\ Len(assignments) = 1
    /\ UnassignedImages # {}
    /\ images = Images

\* the request bodies that name assignment a
SubmitsOn(a) ==
    [image_id : Images, assignment_id : {a},
     question : Texts, answer : Texts, is_rejected : BOOLEAN]
ReportsOn(a) == [image_id : Images, assignment_id : {a}]

\* the step is a submit or report by u that names assignment a
RequestOn(u, a) ==
    \/ \E data \in SubmitsOn(a) : save_annotation(u, data)
    \/ \E data \in ReportsOn(a) : report_image(u, data)

C12_InvalidPayloadStoresNothing ==
    [][resp'.op = "submit" =>
          \/ /\ resp'.code = 400
             /\ resp'.error = "Either provide Q&A or mark as rejected"
             /\ UNCHANGED db
          \/ \A a \in AssignmentIds : \A image_id \in Images : \A question, answer \in Texts :
                (strip(question) = <<>> \/ strip(answer) = <<>>)
                => ~save_annotation(assignments[a].user_id,
                        [image_id |-> image_id, assignment_id |-> a, question |-> question,
                         answer |-> answer, is_rejected |-> FALSE])]_vars

\* a submit was refused as invalid while one assignment is still pending and
\* another holds an approved annotation
C12_Witness ==
    /\ resp.op = "submit" /\ resp.code = 400
    /\ resp.error = "Either provide Q&A or mark as rejected"
    /\ \E a \in AssignmentIds : assignments[a].status = "pending"
    /\ \E r \in annotations : r.is_approved

\* C13: in every reachable state, also with a submit and a report on one
\* assignment interleaved, no annotation is approved and reported at once; the exports 'approved', 'rejected' and 'reported' are
\* pairwise disjoint and together all annotations, 'rejected' holding no
\* reported row; and the admin's approved + rejected + reported counts add up to
\* the number of annotations.
C13_CategoriesPartition ==
    /\ \A r \in annotations : ~(r.is_approved /\ r.is_reported)
    /\ \A user_filter \in UserFilters :
          LET approved == admin_download_annotations("approved", user_filter)
              rejected == admin_download_annotations("rejected", user_filter)
              reported == admin_download_annotations("reported", user_filter)
          IN /\ \A row \in rejected : ~row.is_reported
             /\ approved \cap rejected = {} /\ approved \cap reported = {}
             /\ rejected \cap reported = {}
             /\ approved \cup rejected \cup reported
                    = admin_download_annotations("all", user_filter)
    /\ \A u \in Users :
          is_admin(u) =>
              get_stats(u).approved_images + get_stats(u).rejected_images
                  + get_stats(u).reported_images = Cardinality(annotations)

\* C14: in every reachable state, also with requests interleaved, the progress
\* percentage of getStats (in tenths of a percent) lies in [0, 100] for the
\* admin view and for every annotator's view, and is 0 when its denominator
\* is 0.
C14_ProgressInRange ==
    \A u \in Users :
        /\ get_stats(u).progress_percentage >= 0
        /\ get_stats(u).progress_percentage <= 1000
        /\ get_stats(u).total_images = 0 => get_stats(u).progress_percentage = 0

\* C15: right after a stored submit of a question and an answer that are both
\* non-empty after trimming, getImage by the submitting user for the
\* assignment's image returns an annotation with the trimmed question and
\* answer, is_approved = true and is_reported = false, whatever the assignment
\* held before.
C15_ApproveRoundTrip ==
    [][(resp'.op = "submit" /\ resp'.code = 200) =>
          \A data \in resp'.req :
              (/\ strip(data.question) # <<>> /\ strip(data.answer) # <<>>
               /\ save_annotation(assignments[data.assignment_id].user_id, data))
              => \A result \in get_specific_image(assignments[data.assignment_id].user_id,
                                                  assignments[data.assignment_id].image_id)' :
                    /\ result.code = 200
                    /\ result.assignment_id = data.assignment_id
                    /\ result.annotation =
                          Some([is_approved |-> TRUE, is_reported |-> FALSE,
                                question |-> Some(strip(data.question)),
                                answer |-> Some(strip(data.answer))])]_vars

\* a submit that carried both texts and the reject flag has been stored, and
\* getImage shows the approved annotation with the trimmed texts
C15_Witness ==
    /\ resp.op = "submit" /\ resp.code = 200
    /\ \E data \in resp.req :
          /\ data.is_rejected /\ data.question = <<" ", "q", " ">>
          /\ \E result \in get_specific_image(assignments[data.assignment_id].user_id,
                                               assignments[data.assignment_id].image_id) :
                result.annotation = Some([is_approved |-> TRUE, is_reported |-> FALSE,
                                          question |-> Some(<<"q">>), answer |-> Some(<<"q">>)])

\* C16: a bulkAssign request by a caller who is not an admin is answered with
\* the redirect 'Admin access required', creates no Assignment row and changes
\* no table.
C16_NonAdminChangesNothing ==
    [][resp'.op = "bulkAssign" =>
          \/ resp'.code = 302 /\ resp'.error = "Admin access required" /\ UNCHANGED db
          \/ \A caller \in Users : role[caller] # "admin" =>
                \A form \in Forms : ~admin_create_assignments(caller, form)]_vars

\* a non-admin was turned away while one image was assigned and another was
\* still there to assign
C16_Witness ==
    /\ resp.op = "bulkAssign" /\ resp.code = 302 /\ resp.error = "Admin access required"
    /\ assignments # <<>>
    /\ UnassignedImages # {}

\* C17: nextWorkItem changes no table; it returns AllComplete exactly when the
\* user has no pending assignment, and otherwise the user's pending assignment
\* with the earliest assigned_at.
C17_NextIsEarliestPending ==
    [][resp'.op = "nextWorkItem" =>
          /\ UNCHANGED db
          /\ \A u \in Users : get_next_image(u) =>
                IF PendingOf(u) = {}
                   THEN resp'.out = 0
                   ELSE /\ resp'.out \in PendingOf(u)
                        /\ \A a \in PendingOf(u) : resp'.out <= a]_vars

\* C18 (as claimed): a stored submit with the reject flag whose question and
\* answer are not both non-empty leaves the assignment's annotation with
\* is_approved = false, is_reported = false and question and answer both null.
C18_RejectStoresNoText ==
    [][(resp'.op = "submit" /\ resp'.code = 200) =>
          \A data \in resp'.req :
              (/\ data.is_rejected
               /\ (strip(data.question) = <<>> \/ strip(data.answer) = <<>>)
               /\ save_annotation(assignments[data.assignment_id].user_id, data))
              => /\ AnnotationsOf(data.assignment_id)' # {}
                 /\ \A r \in AnnotationsOf(data.assignment_id)' :
                       /\ ~r.is_approved /\ ~r.is_reported
                       /\ r.question = NULL /\ r.answer = NULL]_vars

\* C18 (amended): a stored submit with the reject flag whose question and
\* answer are not both non-empty leaves the assignment's annotation with
\* is_approved = false and is_reported = false; its question and its answer are
\* each null if the one supplied was empty after trimming and the trimmed text
\* otherwise, also when the submit overwrites a prior approve.
C18_RejectStoresTrimmedText ==
    [][(resp'.op = "submit" /\ resp'.code = 200) =>
          \A data \in resp'.req :
              (/\ data.is_rejected
               /\ (strip(data.question) = <<>> \/ strip(data.answer) = <<>>)
               /\ save_annotation(assignments[data.assignment_id].user_id, data))
              => /\ AnnotationsOf(data.assignment_id)' # {}
                 /\ \A r \in AnnotationsOf(data.assignment_id)' :
                       /\ ~r.is_approved /\ ~r.is_reported
                       /\ r.question = IF strip(data.question) = <<>>
                                          THEN NULL ELSE Some(strip(data.question))
                       /\ r.answer = IF strip(data.answer) = <<>>
                                        THEN NULL ELSE Some(strip(data.answer))]_vars

\* a reject that carried a question and no answer has been stored: the
\* annotation is rejected and holds the trimmed question
C18_Witness ==
    /\ resp.op = "submit" /\ resp.code = 200
    /\ \E data \in resp.req :
          /\ data.is_rejected /\ data.question = <<" ", "q", " ">> /\ data.answer = <<" ">>
          /\ \E r \in AnnotationsOf(data.assignment_id) :
                /\ ~r.is_approved /\ ~r.is_reported
                /\ r.question = Some(<<"q">>) /\ r.answer = NULL

\* C19: in every reachable state, also with submits on one assignment
\* interleaved, every annotation with is_approved = true has a non-empty
\* question and a non-empty answer.
C19_ApprovedHasBoth ==
    \A r \in annotations :
        r.is_approved =>
            /\ r.question # NULL /\ r.question # Some(<<>>)
            /\ r.answer # NULL /\ r.answer # Some(<<>>)

\* the place of an annotator in the list the query returned
Position(users, name) == CHOOSE k \in 1..Len(users) : users[k] = name

\* C20: for every order in which the annotators are read, leaderboard() has
\* one entry per annotator and none for an admin, each with the user's number
\* of approved annotations, in descending order of that number, entries of
\* equal number in the order they were read, and the entry at 0-based
\* position i has rank i + 1.
C20_LeaderboardRanked ==
    \A users \in AnnotatorLists :
        LET lb == get_leaderboard(users)
        IN /\ Len(lb) = Cardinality({u \in Users : ~is_admin(u)})
           /\ {lb[p].username : p \in 1..Len(lb)} = {u \in Users : ~is_admin(u)}
           /\ \A p \in 1..Len(lb) :
                 /\ lb[p].rank = (p - 1) + 1
                 /\ lb[p].approved_count =
                       Cardinality({r \in annotations :
                                      r.user_id = lb[p].username /\ r.is_approved})
           /\ \A p, q \in 1..Len(lb) :
                 p < q =>
                   /\ lb[p].approved_count >= lb[q].approved_count
                   /\ lb[p].approved_count = lb[q].approved_count
                         => Position(users, lb[p].username) < Position(users, lb[q].username)

\* an admin and the annotator read second each hold an approved annotation, the
\* annotator read first holds none: the second annotator leads with rank 1
C20_Witness ==
    /\ ApprovedCount("root") = 1 /\ ApprovedCount("bob") = 1 /\ ApprovedCount("alice") = 0
    /\ get_leaderboard(<<"alice", "bob">>)[1] =
          [username |-> "bob", approved_count |-> 1, rank |-> 1]

\* the step is a stored submit or a report by user u
WritesBy(u) ==
    \/ \E data \in resp'.req : save_annotation(u, data)
    \/ \E data \in WellFormedReports : report_image(u, data)

\* C21: after every submit or report, each Annotation row carries the user_id
\* and the image_id of its assignment, whatever image_id the request body
\* named; and a submit or report by a user adds or removes no assignment,
\* changes no assignment of another user and none of its annotations, and
\* leaves the annotation_count of every image of another user's assignment
\* as it was.
C21_OwnRowsOnly ==
    [][resp'.op \in {"submit", "report"} =>
          /\ \A r \in annotations' :
                /\ r.assignment_id \in 1..Len(assignments')
                /\ r.user_id = assignments'[r.assignment_id].user_id
                /\ r.image_id = assignments'[r.assignment_id].image_id
          /\ \/ UNCHANGED db
             \/ \A u \in Users : WritesBy(u) =>
                   /\ Len(assignments') = Len(assignments)
                   /\ \A a \in AssignmentIds :
                         assignments[a].user_id # u =>
                             /\ assignments'[a] = assignments[a]
                             /\ AnnotationsOf(a)' = AnnotationsOf(a)
                             /\ annotation_count'[assignments[a].image_id]
                                   = annotation_count[assignments[a].image_id]]_vars

\* a submit whose body named another image than the assignment's has been
\* stored with the assignment's image, beside an untouched pending assignment
\* of another user
C21_Witness ==
    /\ resp.op = "submit" /\ resp.code = 200
    /\ \E data \in resp.req :
          /\ data.image_id # assignments[data.assignment_id].image_id
          /\ \E r \in AnnotationsOf(data.assignment_id) :
                r.image_id = assignments[data.assignment_id].image_id
          /\ \E b \in AssignmentIds :
                /\ assignments[b].user_id # assignments[data.assignment_id].user_id
                /\ assignments[b].status = "pending"

\* the pending assignments of every user
AllPending == UNION {PendingOf(u) : u \in Users}

\* C22: once work has started and no bulkAssign happens any more, a user who
\* answers the item nextWorkItem returned with an accepted submit or a report
\* has exactly that item fewer pending, a refused submit leaves every user's
\* pending items as they were, and in the end no user has a pending item and
\* nextWorkItem returns AllComplete.
C22_WorkLoopTerminates ==
    /\ [][(ItemTaken /\ resp'.op \in {"submit", "report"}) =>
             \A u \in Users : \A item \in AssignmentIds :
                 (u = assignments[item].user_id /\ item = resp.out) =>
                     IF resp'.code = 200
                        THEN /\ item \in PendingOf(u)
                             /\ PendingOf(u)' = PendingOf(u) \ {item}
                             /\ Cardinality(PendingOf(u)') = Cardinality(PendingOf(u)) - 1
                        ELSE \A v \in Users : PendingOf(v)' = PendingOf(v)]_vars
    /\ <>[](AllPending = {})
    /\ <>(resp.op = "nextWorkItem" /\ resp.out = 0 /\ AllPending = {})

\* two users have worked off their items, one answered by a report and one by
\* an approve, and nextWorkItem has returned AllComplete
C22_Witness ==
    /\ resp.op = "nextWorkItem" /\ resp.out = 0
    /\ AllPending = {}
    /\ \E a, b \in AssignmentIds : assignments[a].user_id # assignments[b].user_id
    /\ \E r \in annotations : r.is_reported
    /\ \E r \in annotations : r.is_approved

====
